---- MODULE Spec2Model ----
(***************************************************************************)
(* Model of src-tauri/src/lib.rs: the .env loader (load_env_file), the two *)
(* Tauri commands (get_deepgram_api_key, is_api_key_configured) and run.   *)
(*                                                                         *)
(* Text is a sequence of symbols.  A symbol is either one character that   *)
(* the code treats specially ("=", "#", a quote, white space, a newline,   *)
(* NUL, a byte that is not valid Unicode) or a word of ordinary characters *)
(* ("DEEPGRAM_API_KEY", "FOO", "bar", ...), which every string function of *)
(* the code passes through unchanged.                                      *)
(***************************************************************************)
EXTENDS Integers, Sequences, FiniteSets, TLC

VARIABLES build, fs, env0, env, pc, out, resolved, readLog, parsed, sets,
          loads, getReplies, isReplies, line

vars == <<build, fs, env0, env, pc, out, resolved, readLog, parsed, sets,
          loads, getReplies, isReplies, line>>

\* Longest line the line-level specification enumerates exhaustively.
MaxLineLen == 4
\* Most lines in a candidate file of the program-level specification.
MaxFileLines == 2
\* Most command invocations served after start-up.
MaxCalls == 2

NUL == "NUL"            \* the character '\0'
INVALID == "xFF"        \* a byte sequence that is not valid Unicode
DQ == "\""
SQ == "'"
DEEPGRAM_API_KEY == <<"DEEPGRAM_API_KEY">>
FOO == <<"FOO">>
NotSetMessage ==
    <<"DEEPGRAM_API_KEY environment variable not set. Please set it before running the app.">>

Range(s) == {s[i] : i \in 1..Len(s)}

(***************************************************************************)
(* String functions of the standard library, as load_env_file uses them.   *)
(***************************************************************************)
IsWhitespace(c) == c \in {" ", "\t", "\r", "\n"}

RECURSIVE TrimStart(_)
TrimStart(s) ==
    IF s # <<>> /\ IsWhitespace(Head(s)) THEN TrimStart(Tail(s)) ELSE s

RECURSIVE TrimEnd(_)
TrimEnd(s) ==
    IF s # <<>> /\ IsWhitespace(s[Len(s)])
    THEN TrimEnd(SubSeq(s, 1, Len(s) - 1))
    ELSE s

\* str::trim
Trim(s) == TrimEnd(TrimStart(s))

RECURSIVE TrimStartMatches(_, _)
TrimStartMatches(s, c) ==
    IF s # <<>> /\ Head(s) = c THEN TrimStartMatches(Tail(s), c) ELSE s

RECURSIVE TrimEndMatches(_, _)
TrimEndMatches(s, c) ==
    IF s # <<>> /\ s[Len(s)] = c
    THEN TrimEndMatches(SubSeq(s, 1, Len(s) - 1), c)
    ELSE s

\* str::trim_matches(char): every leading and every trailing c is removed.
TrimMatches(s, c) == TrimEndMatches(TrimStartMatches(s, c), c)

\* Index of the first c in s at or after i, 0 when there is none.
RECURSIVE Find(_, _, _)
Find(s, c, i) ==
    IF i > Len(s) THEN 0
    ELSE IF s[i] = c THEN i
    ELSE Find(s, c, i + 1)

\* str::split_once(char)
SplitOnce(s, c) ==
    LET i == Find(s, c, 1) IN
    IF i = 0
    THEN [some |-> FALSE, key |-> <<>>, value |-> <<>>]
    ELSE [some |-> TRUE, key |-> SubSeq(s, 1, i - 1),
          value |-> SubSeq(s, i + 1, Len(s))]

StripCR(s) ==
    IF s # <<>> /\ s[Len(s)] = "\r" THEN SubSeq(s, 1, Len(s) - 1) ELSE s

\* str::lines: split at "\n", one "\r" before it dropped, no final empty line.
RECURSIVE Lines(_)
Lines(s) ==
    IF s = <<>> THEN <<>>
    ELSE LET i == Find(s, "\n", 1) IN
         IF i = 0 THEN <<s>>
         ELSE <<StripCR(SubSeq(s, 1, i - 1))>> \o Lines(SubSeq(s, i + 1, Len(s)))

(***************************************************************************)
(* The process environment: a function from names to values.               *)
(***************************************************************************)
EmptyEnv == [k \in {} |-> <<>>]

Put(e, k, v) == [x \in DOMAIN e \cup {k} |-> IF x = k THEN v ELSE e[x]]

\* std::env::set_var panics on a name that is empty or holds "=" or NUL, and
\* on a value that holds NUL.
SetVarPanics(k, v) ==
    \/ k = <<>>
    \/ "=" \in Range(k)
    \/ NUL \in Range(k)
    \/ NUL \in Range(v)

\* set_var that keeps the value a variable already has.
SetVarKeepExisting(e, k, v) ==
    IF SetVarPanics(k, v) THEN [env |-> e, panicked |-> TRUE]
    ELSE [env |-> IF k \in DOMAIN e THEN e ELSE Put(e, k, v), panicked |-> FALSE]

\* set_var that appends to the value a variable already has.
SetVarAppend(e, k, v) ==
    IF SetVarPanics(k, v) THEN [env |-> e, panicked |-> TRUE]
    ELSE [env |-> Put(e, k, IF k \in DOMAIN e THEN e[k] \o v ELSE v),
          panicked |-> FALSE]

\* std::env::set_var(key, value)
SetVar(e, k, v) ==
    IF SetVarPanics(k, v) THEN [env |-> e, panicked |-> TRUE]
    ELSE [env |-> Put(e, k, v), panicked |-> FALSE]

IsUnicode(v) == INVALID \notin Range(v)

\* env::var that reports a variable whose value is not valid Unicode as set.
EnvVarLossy(e, name) ==
    IF name \in DOMAIN e
    THEN [ok |-> TRUE, value |-> e[name]]
    ELSE [ok |-> FALSE, value |-> <<"NotPresent">>]

\* std::env::var(name): Err(NotPresent), Err(NotUnicode) or Ok(value)
EnvVar(e, name) ==
    IF name \notin DOMAIN e THEN [ok |-> FALSE, value |-> <<"NotPresent">>]
    ELSE IF ~IsUnicode(e[name]) THEN [ok |-> FALSE, value |-> <<"NotUnicode">>]
    ELSE [ok |-> TRUE, value |-> e[name]]

(***************************************************************************)
(* load_env_file: one line.                                                *)
(***************************************************************************)
\* The quote handling of line 30.
StripQuotes(v) == TrimMatches(TrimMatches(v, DQ), SQ)

\* Lines 24-31: what the loop body decides to install for one line.
ParseLine(raw) ==
    LET l == Trim(raw) IN
    IF l = <<>> \/ Head(l) = "#"
    THEN [kind |-> "skip", key |-> <<>>, value |-> <<>>]
    ELSE LET sp == SplitOnce(l, "=") IN
         IF ~sp.some
         THEN [kind |-> "skip", key |-> <<>>, value |-> <<>>]
         ELSE LET key == Trim(sp.key)
                  value == StripQuotes(Trim(sp.value))
              IN IF key # <<>>
                 THEN [kind |-> "set", key |-> key, value |-> value]
                 ELSE [kind |-> "skip", key |-> <<>>, value |-> <<>>]

\* Lines 24-34: the loop body on one line.  sets logs the completed set_var
\* calls.
LoopBody(e, raw) ==
    LET p == ParseLine(raw) IN
    IF p.kind = "skip"
    THEN [env |-> e, panicked |-> FALSE, sets |-> <<>>]
    ELSE LET r == SetVar(e, p.key, p.value) IN
         [env |-> r.env, panicked |-> r.panicked,
          sets |-> IF r.panicked THEN <<>>
                   ELSE <<[key |-> p.key, value |-> p.value]>>]

\* Lines 23-35: the loop over the lines; a panic ends it.
RECURSIVE ForLines(_, _)
ForLines(e, ls) ==
    IF ls = <<>> THEN [env |-> e, panicked |-> FALSE, sets |-> <<>>]
    ELSE LET r == LoopBody(e, Head(ls)) IN
         IF r.panicked THEN r
         ELSE LET rest == ForLines(r.env, Tail(ls)) IN
              [rest EXCEPT !.sets = r.sets \o @]

(***************************************************************************)
(* The candidate files.  A file is a record: status tells how far the      *)
(* loader gets with it, contents is its text when it can be read.          *)
(***************************************************************************)
\* Lines 10-17, in order: the project root, the current directory, src-tauri.
possible_paths == <<"../.env", ".env", "src-tauri/.env">>

Paths == Range(possible_paths)

\* unresolved: canonicalize fails; vanished: canonicalize succeeds and exists()
\* is false; unreadable: read_to_string fails (a directory, no permission,
\* text that is not valid UTF-8); ok: read_to_string returns the contents.
Statuses == {"unresolved", "vanished", "unreadable", "ok"}

Canonicalize(f) == f.status # "unresolved"

Exists(f) == f.status \notin {"unresolved", "vanished"}

\* read_to_string that yields an empty text where the read fails.
ReadToStringLossy(f) ==
    [ok |-> TRUE, contents |-> IF f.status = "ok" THEN f.contents ELSE <<>>]

ReadToString(f) ==
    IF f.status = "ok"
    THEN [ok |-> TRUE, contents |-> f.contents]
    ELSE [ok |-> FALSE, contents |-> <<>>]

LoadedMessage(p) == [msg |-> "Loaded .env from: ", path |-> p]

NoneFoundMessage == [msg |-> "No .env file found", path |-> ""]

\* Lines 23-37: parse the contents of the candidate p, report, return.
Loaded(e, p, contents) ==
    LET r == ForLines(e, Lines(contents)) IN
    [env |-> r.env, panicked |-> r.panicked, sets |-> r.sets,
     out |-> IF r.panicked THEN <<>> ELSE <<LoadedMessage(p)>>,
     resolved |-> <<p>>, readLog |-> <<p>>, parsed |-> <<p>>]

\* Line 42: no candidate was read.
NoneFound(e) ==
    [env |-> e, panicked |-> FALSE, sets |-> <<>>, out |-> <<NoneFoundMessage>>,
     resolved |-> <<>>, readLog |-> <<>>, parsed |-> <<>>]

\* The candidate p was examined before the candidates of rest.
After(p, wasRead, rest) ==
    [rest EXCEPT !.resolved = <<p>> \o @,
                 !.readLog = (IF wasRead THEN <<p>> ELSE <<>>) \o @]

\* The loop of lines 19-41 without the return of line 37.
RECURSIVE TryCandidatesNoReturn(_, _, _)
TryCandidatesNoReturn(f, e, i) ==
    IF i > Len(possible_paths) THEN NoneFound(e)
    ELSE LET p == possible_paths[i] IN
         IF ~Canonicalize(f[p]) \/ ~Exists(f[p])
         THEN After(p, FALSE, TryCandidatesNoReturn(f, e, i + 1))
         ELSE LET rd == ReadToString(f[p]) IN
              IF ~rd.ok
              THEN After(p, TRUE, TryCandidatesNoReturn(f, e, i + 1))
              ELSE LET r == Loaded(e, p, rd.contents) IN
                   IF r.panicked THEN r
                   ELSE LET rest == TryCandidatesNoReturn(f, r.env, i + 1) IN
                        [rest EXCEPT !.resolved = <<p>> \o @,
                                     !.readLog = <<p>> \o @,
                                     !.parsed = <<p>> \o @,
                                     !.sets = r.sets \o @,
                                     !.out = r.out \o @]

\* Lines 19-42: the candidates from the i-th on.  resolved, readLog and parsed
\* log the candidates canonicalize was called on, read_to_string was called
\* on, and whose contents were parsed.
RECURSIVE TryCandidates(_, _, _)
TryCandidates(f, e, i) ==
    IF i > Len(possible_paths) THEN NoneFound(e)
    ELSE LET p == possible_paths[i] IN
         IF ~Canonicalize(f[p]) \/ ~Exists(f[p])
         THEN After(p, FALSE, TryCandidates(f, e, i + 1))
         ELSE LET rd == ReadToString(f[p]) IN
              IF ~rd.ok
              THEN After(p, TRUE, TryCandidates(f, e, i + 1))
              ELSE Loaded(e, p, rd.contents)

\* fn load_env_file()
load_env_file(f, e) == TryCandidates(f, e, 1)

(***************************************************************************)
(* The two commands: what they return in the environment e.                *)
(***************************************************************************)
\* Lines 51-54: env::var(..).map_err(|_| message)
GetReply(e) ==
    LET r == EnvVar(e, DEEPGRAM_API_KEY) IN
    IF r.ok THEN r ELSE [ok |-> FALSE, value |-> NotSetMessage]

\* is_api_key_configured that calls an empty value not configured.
IsReplyNonEmpty(e) ==
    LET r == EnvVar(e, DEEPGRAM_API_KEY) IN r.ok /\ r.value # <<>>

\* Line 60: env::var(..).is_ok()
IsReply(e) == EnvVar(e, DEEPGRAM_API_KEY).ok

(***************************************************************************)
(* The program.                                                            *)
(***************************************************************************)
\* run that calls load_env_file in every build.
runAlwaysLoads ==
    /\ pc = "start"
    /\ LET r == load_env_file(fs, env) IN
       /\ env' = r.env
       /\ out' = out \o r.out
       /\ resolved' = r.resolved
       /\ readLog' = r.readLog
       /\ parsed' = r.parsed
       /\ sets' = r.sets
       /\ loads' = loads + 1
       /\ pc' = IF r.panicked THEN "panicked" ELSE "serving"
    /\ UNCHANGED <<build, fs, env0, getReplies, isReplies, line>>

\* run: load_env_file under cfg(debug_assertions), then the handlers are
\* registered and the application serves requests.
run ==
    /\ pc = "start"
    /\ IF build = "debug"
       THEN LET r == load_env_file(fs, env) IN
            /\ env' = r.env
            /\ out' = out \o r.out
            /\ resolved' = r.resolved
            /\ readLog' = r.readLog
            /\ parsed' = r.parsed
            /\ sets' = r.sets
            /\ loads' = loads + 1
            /\ pc' = IF r.panicked THEN "panicked" ELSE "serving"
       ELSE /\ pc' = "serving"
            /\ UNCHANGED <<env, out, resolved, readLog, parsed, sets, loads>>
    /\ UNCHANGED <<build, fs, env0, getReplies, isReplies, line>>

Served == Len(getReplies) + Len(isReplies)

\* The frontend invokes get_deepgram_api_key.
get_deepgram_api_key ==
    /\ pc = "serving"
    /\ Served < MaxCalls
    /\ getReplies' = Append(getReplies, GetReply(env))
    /\ UNCHANGED <<build, fs, env0, env, pc, out, resolved, readLog, parsed,
                   sets, loads, isReplies, line>>

\* The frontend invokes is_api_key_configured.
is_api_key_configured ==
    /\ pc = "serving"
    /\ Served < MaxCalls
    /\ isReplies' = Append(isReplies, IsReply(env))
    /\ UNCHANGED <<build, fs, env0, env, pc, out, resolved, readLog, parsed,
                   sets, loads, getReplies, line>>

(***************************************************************************)
(* Initial states.                                                         *)
(***************************************************************************)
\* Environments the process can inherit from its parent.
InitEnvs ==
    { EmptyEnv,
      [k \in {DEEPGRAM_API_KEY, FOO} |-> <<"old">>],
      [k \in {DEEPGRAM_API_KEY} |-> <<INVALID>>] }

\* Lines a candidate file is made of, each with its line ending.
SampleLines ==
    { <<"FOO", "=", "bar", "\n">>,
      <<"DEEPGRAM_API_KEY", "=", DQ, "bar", " ", "baz", DQ, "\n">>,
      <<"DEEPGRAM_API_KEY", "=", "\r", "\n">>,
      <<"#", " ", "FOO", "=", "bar", "\n">>,
      <<"FOO", "=", NUL, "\n">> }

RECURSIVE Flatten(_)
Flatten(ss) == IF ss = <<>> THEN <<>> ELSE Head(ss) \o Flatten(Tail(ss))

FileContents ==
    UNION { {Flatten(ls) : ls \in [1..n -> SampleLines]} : n \in 0..MaxFileLines }

\* What a later candidate holds when an earlier one is read.
OtherContents ==
    <<"DEEPGRAM_API_KEY", "=", "other", "\n", "FOO", "=", "other", "\n">>

FirstOk(st) ==
    LET ok == {i \in 1..Len(possible_paths) : st[possible_paths[i]] = "ok"} IN
    IF ok = {} THEN 0 ELSE CHOOSE i \in ok : \A j \in ok : i <= j

FileSystems ==
    { [p \in Paths |->
         [status |-> st[p],
          contents |-> IF st[p] # "ok" THEN <<>>
                       ELSE IF p = possible_paths[FirstOk(st)] THEN c
                       ELSE OtherContents]]
      : st \in [Paths -> Statuses], c \in FileContents }

Init ==
    /\ build \in {"debug", "release"}
    /\ fs \in FileSystems
    /\ env0 \in InitEnvs
    /\ env = env0
    /\ pc = "start"
    /\ out = <<>>
    /\ resolved = <<>>
    /\ readLog = <<>>
    /\ parsed = <<>>
    /\ sets = <<>>
    /\ loads = 0
    /\ getReplies = <<>>
    /\ isReplies = <<>>
    /\ line = <<>>

Next == run \/ get_deepgram_api_key \/ is_api_key_configured

Spec == Init /\ [][Next]_vars

(***************************************************************************)
(* The loop body of load_env_file on every short line.                     *)
(***************************************************************************)
LineAlphabet == {"DEEPGRAM_API_KEY", "bar", "=", "#", " ", DQ, SQ, NUL}

ExampleLines ==
    { <<"FOO", "=", DQ, "bar", " ", "baz", DQ>>,
      <<"#", " ", "FOO", "=", "bar">>,
      <<" ", "FOO", " ", "=", " ", SQ, DQ, "bar", DQ, SQ, " ">>,
      <<"FOO", "=", DQ, DQ, "bar", DQ, DQ>>,
      <<"FOO", "=", "bar", "=", "baz", "=">> }

BoundedLines ==
    ExampleLines \cup UNION { [1..n -> LineAlphabet] : n \in 0..MaxLineLen }

NoFiles == [p \in Paths |-> [status |-> "unresolved", contents |-> <<>>]]

\* The loader is about to run the loop body on line, with env as it is.
LineInit ==
    /\ build = "debug"
    /\ fs = NoFiles
    /\ env0 \in InitEnvs
    /\ env = env0
    /\ pc = "line"
    /\ line \in BoundedLines
    /\ out = <<>>
    /\ resolved = <<>>
    /\ readLog = <<>>
    /\ parsed = <<>>
    /\ sets = <<>>
    /\ loads = 0
    /\ getReplies = <<>>
    /\ isReplies = <<>>

\* One iteration of the loop of lines 23-35.
LineStep ==
    /\ pc = "line"
    /\ LET r == LoopBody(env, line) IN
       /\ env' = r.env
       /\ sets' = r.sets
       /\ pc' = IF r.panicked THEN "panicked" ELSE "lineDone"
    /\ UNCHANGED <<build, fs, env0, out, resolved, readLog, parsed, loads,
                   getReplies, isReplies, line>>

LineNext == LineStep

LineSpec == LineInit /\ [][LineNext]_vars

(***************************************************************************)
(* Properties.                                                             *)
(***************************************************************************)
\* Position in possible_paths of the first candidate that resolves, exists
\* and is read; 0 when there is none.
FirstReadable == FirstOk([p \in Paths |-> fs[p].status])

\* C1: the loader examines the candidates in list order and stops at the first
\* one that resolves and is read: canonicalize is called on exactly the
\* candidates up to it, nothing after it is resolved or read, and the entries
\* installed are those of its contents alone, also when there are none.
C1_FirstReadableWins ==
    (build = "debug" /\ pc # "start") =>
        LET n == FirstReadable IN
        IF n = 0
        THEN resolved = possible_paths /\ parsed = <<>>
        ELSE /\ resolved = SubSeq(possible_paths, 1, n)
             /\ Range(readLog) \subseteq Range(SubSeq(possible_paths, 1, n))
             /\ parsed = <<possible_paths[n]>>
             /\ LET r == ForLines(env0, Lines(fs[possible_paths[n]].contents)) IN
                env = r.env /\ sets = r.sets

\* A later candidate is readable too, and the one read installs nothing.
C1_Witness ==
    /\ build = "debug"
    /\ pc = "serving"
    /\ FirstReadable = 2
    /\ fs[possible_paths[1]].status = "unreadable"
    /\ fs[possible_paths[3]].status = "ok"
    /\ fs[possible_paths[2]].contents # <<>>
    /\ sets = <<>>

\* C2 as stated: every reply of get_deepgram_api_key is Ok(value) when the
\* variable is present in the environment and Err(the fixed message) when not.
C2_AsStated ==
    \A i \in 1..Len(getReplies) :
        getReplies[i] =
            IF DEEPGRAM_API_KEY \in DOMAIN env
            THEN [ok |-> TRUE, value |-> env[DEEPGRAM_API_KEY]]
            ELSE [ok |-> FALSE, value |-> NotSetMessage]

\* C2, amended: every reply of get_deepgram_api_key is Ok(value) when the
\* variable is present with a value that is valid Unicode, and Err(the fixed
\* message) when it is absent or its value is not valid Unicode.
C2_KeyOrFixedMessage ==
    \A i \in 1..Len(getReplies) :
        getReplies[i] =
            IF DEEPGRAM_API_KEY \in DOMAIN env /\ IsUnicode(env[DEEPGRAM_API_KEY])
            THEN [ok |-> TRUE, value |-> env[DEEPGRAM_API_KEY]]
            ELSE [ok |-> FALSE, value |-> NotSetMessage]

\* The command has failed twice, with the same message, on an unset variable.
C2_Witness ==
    /\ Len(getReplies) >= 2
    /\ DEEPGRAM_API_KEY \notin DOMAIN env
    /\ getReplies[1] = [ok |-> FALSE, value |-> NotSetMessage]
    /\ getReplies[2] = getReplies[1]

\* C3 as stated: every reply of is_api_key_configured is true exactly when the
\* variable is set in the environment.
C3_AsStated ==
    \A i \in 1..Len(isReplies) :
        isReplies[i] = (DEEPGRAM_API_KEY \in DOMAIN env)

\* C3, amended: every reply of is_api_key_configured is true exactly when the
\* variable is set to a value that is valid Unicode (the empty string
\* included), which is exactly when get_deepgram_api_key succeeds.
C3_ConfiguredIffGetSucceeds ==
    \A i \in 1..Len(isReplies) :
        /\ isReplies[i] = ( /\ DEEPGRAM_API_KEY \in DOMAIN env
                            /\ IsUnicode(env[DEEPGRAM_API_KEY]) )
        /\ isReplies[i] = GetReply(env).ok
        /\ \A j \in 1..Len(getReplies) : getReplies[j].ok = isReplies[i]

\* The file set the variable to the empty string and both commands were served.
C3_Witness ==
    /\ pc = "serving"
    /\ sets # <<>>
    /\ DEEPGRAM_API_KEY \in DOMAIN env
    /\ env[DEEPGRAM_API_KEY] = <<>>
    /\ isReplies = <<TRUE>>
    /\ getReplies = <<[ok |-> TRUE, value |-> <<>>]>>

\* C4: once the loader has returned from a file it read, every key with a
\* valid line in the file has the value of its last valid line, whatever it
\* had before; a last line FOO=bar leaves FOO = bar; and when the key is
\* DEEPGRAM_API_KEY both commands answer with that value.
C4_LastValidLineWins ==
    (pc = "serving" /\ parsed # <<>>) =>
        LET ls == Lines(fs[parsed[1]].contents)
            ps == [i \in 1..Len(ls) |-> ParseLine(ls[i])]
            last(i) == /\ ps[i].kind = "set"
                       /\ \A j \in (i + 1)..Len(ls) :
                             ~(ps[j].kind = "set" /\ ps[j].key = ps[i].key)
        IN /\ \A i \in 1..Len(ls) :
                last(i) =>
                    /\ ps[i].key \in DOMAIN env
                    /\ env[ps[i].key] = ps[i].value
                    /\ ps[i].key = DEEPGRAM_API_KEY =>
                          /\ \A g \in 1..Len(getReplies) :
                                getReplies[g] = [ok |-> TRUE, value |-> ps[i].value]
                          /\ \A k \in 1..Len(isReplies) : isReplies[k] = TRUE
           /\ (ls # <<>> /\ ls[Len(ls)] = <<"FOO", "=", "bar">>) =>
                 (FOO \in DOMAIN env /\ env[FOO] = <<"bar">>)

\* The file has two lines for DEEPGRAM_API_KEY, which was set before, and both
\* commands were served.
C4_Witness ==
    /\ pc = "serving"
    /\ DEEPGRAM_API_KEY \in DOMAIN env0
    /\ Len(sets) = 2
    /\ sets[1].key = DEEPGRAM_API_KEY
    /\ sets[2].key = DEEPGRAM_API_KEY
    /\ sets[1].value # sets[2].value
    /\ env[DEEPGRAM_API_KEY] = sets[2].value
    /\ getReplies # <<>>
    /\ isReplies # <<>>

\* C5: when no candidate resolves and is read, the loader returns with the
\* environment as it was, having printed only 'No .env file found', and the
\* commands answer from the inherited environment: false and the fixed
\* message when DEEPGRAM_API_KEY was not set.
C5_NoFileNoChange ==
    (build = "debug" /\ pc # "start" /\ FirstReadable = 0) =>
        /\ pc = "serving"
        /\ env = env0
        /\ sets = <<>>
        /\ out = <<NoneFoundMessage>>
        /\ \A i \in 1..Len(getReplies) : getReplies[i] = GetReply(env0)
        /\ \A i \in 1..Len(isReplies) : isReplies[i] = IsReply(env0)
        /\ DEEPGRAM_API_KEY \notin DOMAIN env0 =>
              /\ \A i \in 1..Len(getReplies) :
                    getReplies[i] = [ok |-> FALSE, value |-> NotSetMessage]
              /\ \A i \in 1..Len(isReplies) : isReplies[i] = FALSE

\* A candidate resolves and cannot be read, none is read, and both commands
\* were served with the variable unset.
C5_Witness ==
    /\ build = "debug"
    /\ pc = "serving"
    /\ FirstReadable = 0
    /\ \E p \in Paths : fs[p].status = "unreadable"
    /\ \E p \in Paths : fs[p].status = "vanished"
    /\ DEEPGRAM_API_KEY \notin DOMAIN env0
    /\ getReplies # <<>>
    /\ isReplies # <<>>

\* One layer of matching surrounding quotes removed, as the specification
\* words it.
StripOneMatchingLayer(v) ==
    IF Len(v) >= 2 /\ v[1] = v[Len(v)] /\ v[1] \in {DQ, SQ}
    THEN SubSeq(v, 2, Len(v) - 1)
    ELSE v

\* The text after the first "=" of a trimmed line.
AfterFirstEq(l) == SubSeq(l, Find(l, "=", 1) + 1, Len(l))

\* The text before the first "=" of a trimmed line.
BeforeFirstEq(l) == SubSeq(l, 1, Find(l, "=", 1) - 1)

\* C6: the value a line installs is the trimmed text after the first "=" with
\* exactly one layer of matching surrounding quotes removed when there is one,
\* and unchanged otherwise.
C6_OneMatchingLayer ==
    (pc = "lineDone" /\ sets # <<>>) =>
        sets[1].value = StripOneMatchingLayer(Trim(AfterFirstEq(Trim(line))))

\* The conditions under which a line is said to install an entry.
InstallsEntry(raw) ==
    LET l == Trim(raw) IN
    /\ l # <<>>
    /\ Head(l) # "#"
    /\ Find(l, "=", 1) > 0
    /\ Trim(BeforeFirstEq(l)) # <<>>

\* What the loop body must have done with line.
InstalledAsParsed ==
    IF InstallsEntry(line)
    THEN /\ pc = "lineDone"
         /\ Len(sets) = 1
         /\ sets[1].key = Trim(BeforeFirstEq(Trim(line)))
         /\ sets[1].value = StripQuotes(Trim(AfterFirstEq(Trim(line))))
         /\ env = Put(env0, sets[1].key, sets[1].value)
    ELSE /\ pc = "lineDone"
         /\ sets = <<>>
         /\ env = env0

\* C7: a line installs an entry if and only if, trimmed, it is not empty, does
\* not begin with "#", holds an "=" and has a non-empty trimmed text before the
\* first "="; the key is that text, the value comes from all the text after
\* the first "="; every other line installs nothing and the loop goes on.
C7_InstallsIff == pc # "line" => InstalledAsParsed

\* The same for the lines that hold no NUL (lemma: C7 fails on no other line).
InstallsIffWithoutNul ==
    (pc # "line" /\ NUL \notin Range(line)) => InstalledAsParsed

\* C8: once the loader has returned, running it again on the same files
\* returns too and leaves the environment as the first run left it.
C8_Idempotent ==
    (pc = "serving" /\ loads = 1) =>
        LET again == load_env_file(fs, env) IN
        ~again.panicked /\ again.env = env

\* The first run replaced an inherited value and installed a key twice.
C8_Witness ==
    /\ pc = "serving"
    /\ loads = 1
    /\ Len(sets) = 2
    /\ sets[1].key = sets[2].key
    /\ sets[1].value # sets[2].value
    /\ sets[1].key \in DOMAIN env0
    /\ env # env0

RECURSIVE CountSet(_)
CountSet(ls) ==
    IF ls = <<>> THEN 0
    ELSE (IF ParseLine(Head(ls)).kind = "set" THEN 1 ELSE 0) + CountSet(Tail(ls))

\* C10: whatever the text of the file it read, the loader returns normally:
\* every line was installed or skipped, and 'Loaded .env from' was printed.
C10_NeverAborts ==
    (build = "debug" /\ pc # "start" /\ FirstReadable # 0) =>
        /\ pc = "serving"
        /\ out = <<LoadedMessage(possible_paths[FirstReadable])>>
        /\ Len(sets) = CountSet(Lines(fs[possible_paths[FirstReadable]].contents))

====
